---- MODULE Spec2Model ----
(***************************************************************************)
(* Meeting-bot gateway: the in-memory instance registry (BotManager), the  *)
(* HTTP endpoints of the gateway, the background launch task               *)
(* (start_bot_async) and the remote launcher (run_meeting_bot).            *)
(*                                                                         *)
(* Optional[T] values are modelled as sequences: None is << >> and a       *)
(* present value x is <<x>>.  Clock readings (datetime.utcnow()) are       *)
(* seconds on a discrete clock `now`.                                      *)
(***************************************************************************)
EXTENDS Integers, Sequences, FiniteSets, TLC

\* ---------------------------------------------------------------- bounds
\* joins accepted while the interleavings of the gateway are explored
MaxInstances == 2
\* joins accepted while the clock runs
MaxTimedInstances == 1
\* records created while the registry is driven directly
MaxRecords == 2
\* number of clock ticks in one run
MaxTicks == 1
\* joins accepted while every launch environment is explored
MaxLaunches == 1
\* joins accepted while the fair runs of the background tasks are explored
MaxLiveInstances == 1

\* ------------------------------------------------------- program constants
\* health-poll budget of the launcher
max_retries == 30
\* seconds in an hour, cleanup_old_instances
SecondsPerHour == 3600
\* default of JoinMeetingRequest.duration_minutes
DefaultDuration == 60

\* ------------------------------------------------------------ Optional[T]
None == << >>
Some(x) == <<x>>
IsSet(o) == o # None
\* Python truthiness of an Optional[str]: None and "" are falsy
Truthy(o) == o # None /\ o[1] # ""

\* ------------------------------------------------------------ value sets
\* ids a client may ask about: every id that can be generated plus one that never is
MaxIds == IF MaxInstances > MaxRecords THEN MaxInstances ELSE MaxRecords
Ids == 1 .. (MaxIds + 1)
Statuses == {"starting", "running", "completed", "failed", "terminated"}
TerminalStatuses == {"completed", "failed"}
\* error_message arguments offered to update_instance_status
Messages == {None, Some(""), Some("boom")}
\* max_age_hours arguments offered to cleanup_old_instances
MaxAges == {0, 1}
\* the keys join_meeting writes itself
FixedKeys == {"meeting_url", "bot_name", "recording_enabled", "duration_minutes"}

\* additional_params values a client may send (None: the field sent as null)
AdditionalParams ==
    { None,
      Some([k \in {} |-> ""]),
      Some([language |-> "en"]),
      Some([bot_name |-> "X"]),
      Some([meeting_url |-> "https://example.com/m/2", language |-> "en"]),
      Some([recording_enabled |-> FALSE, duration_minutes |-> 5]) }

\* JoinMeetingRequest values that pass validation (meeting_url present)
JoinMeetingRequest ==
    [ meeting_url : {"https://example.com/m/1"},
      bot_name : {"Meeting Bot", "Y"},
      recording_enabled : {TRUE},
      duration_minutes : {DefaultDuration},
      additional_params : AdditionalParams ]

\* the requests sent while the interleavings of the gateway are explored
GatewayRequests ==
    { r \in JoinMeetingRequest :
        /\ r.bot_name = "Y"
        /\ r.additional_params \in {None, Some([bot_name |-> "X"])} }

\* ------------------------------------------------------------------ state
VARIABLES
    instances,   \* bot_manager.instances: instance_id -> BotInstance
    uuid_count,  \* number of identifiers uuid4 has generated
    now,         \* the clock read by datetime.utcnow()
    task,        \* instance_id -> position of its start_bot_async task
    remote,      \* instance_id -> outcome of the awaited run_meeting_bot call
    requests,    \* instance_id -> the join request that created it (history)
    returned,    \* instance ids returned by join_meeting, in order (history)
    created,     \* ids create_instance has stored (history)
    evicted,     \* ids cleanup_old_instances has removed (history)
    client,      \* the last client request, if it was an accepted join or terminate (history)
    last         \* the last operation and what it returned

vars == <<instances, uuid_count, now, task, remote, requests, returned, created, evicted,
          client, last>>

\* the operation record kept in `last`
Event(op, id, code, status, record, listing) ==
    [op |-> op, id |-> id, code |-> code, status |-> status,
     record |-> record, listing |-> listing]

NoListing == [i \in {} |-> None]

\* the request record kept in `client`
Request(op, id) == [op |-> op, id |-> id]
OtherRequest == Request("other", 0)

\* --------------------------------------------------------------- registry
\* an identifier generator that repeats its first identifier
uuid4_repeating(n) == IF n > 0 THEN n ELSE n + 1

\* uuid.uuid4(): the n-th identifier generated; generation is collision-free
uuid4(n) == n + 1

BotInstance(instance_id, meeting_params, status, started_at) ==
    [instance_id |-> instance_id,
     meeting_params |-> meeting_params,
     status |-> status,
     started_at |-> started_at,
     completed_at |-> None,
     error_message |-> None]

\* BotManager.create_instance: the registry after the call
create_instance(insts, instance_id, meeting_params, clock) ==
    [i \in DOMAIN insts \cup {instance_id} |->
        IF i = instance_id
        THEN BotInstance(instance_id, meeting_params, "starting", clock)
        ELSE insts[i]]

\* BotManager.get_instance: Optional[BotInstance]
get_instance(insts, instance_id) ==
    IF instance_id \in DOMAIN insts THEN Some(insts[instance_id]) ELSE None

\* an update that stores a record when the id has none
update_instance_status_upsert(insts, instance_id, status, error_message, clock) ==
    LET base == IF instance_id \in DOMAIN insts THEN insts
                ELSE create_instance(insts, instance_id, [k \in {} |-> ""], clock)
    IN [base EXCEPT ![instance_id] =
            [@ EXCEPT !.status = status,
                      !.completed_at =
                          IF status \in {"completed", "failed"} THEN Some(clock) ELSE @,
                      !.error_message =
                          IF Truthy(error_message) THEN error_message ELSE @]]

\* an update that stamps completed_at for `completed` only
update_instance_status_completed_only(insts, instance_id, status, error_message, clock) ==
    IF instance_id \in DOMAIN insts
    THEN [insts EXCEPT ![instance_id] =
            [@ EXCEPT !.status = status,
                      !.completed_at =
                          IF status = "completed" THEN Some(clock) ELSE @,
                      !.error_message =
                          IF Truthy(error_message) THEN error_message ELSE @]]
    ELSE insts

\* an update that stamps completed_at for every status that ends a run
update_instance_status_restamp(insts, instance_id, status, error_message, clock) ==
    IF instance_id \in DOMAIN insts
    THEN [insts EXCEPT ![instance_id] =
            [@ EXCEPT !.status = status,
                      !.completed_at =
                          IF status \in {"completed", "failed", "terminated"}
                          THEN Some(clock) ELSE @,
                      !.error_message =
                          IF Truthy(error_message) THEN error_message ELSE @]]
    ELSE insts

\* an update that restarts the record's clock when the run begins
update_instance_status_restart(insts, instance_id, status, error_message, clock) ==
    IF instance_id \in DOMAIN insts
    THEN [insts EXCEPT ![instance_id] =
            [@ EXCEPT !.status = status,
                      !.started_at = IF status = "running" THEN clock ELSE @,
                      !.completed_at =
                          IF status \in {"completed", "failed"} THEN Some(clock) ELSE @,
                      !.error_message =
                          IF Truthy(error_message) THEN error_message ELSE @]]
    ELSE insts

\* an update that leaves a terminated record as it is
update_instance_status_terminated_final(insts, instance_id, status, error_message, clock) ==
    IF instance_id \in DOMAIN insts /\ insts[instance_id].status # "terminated"
    THEN [insts EXCEPT ![instance_id] =
            [@ EXCEPT !.status = status,
                      !.completed_at =
                          IF status \in {"completed", "failed"} THEN Some(clock) ELSE @,
                      !.error_message =
                          IF Truthy(error_message) THEN error_message ELSE @]]
    ELSE insts

\* an update that assigns error_message whatever was supplied
update_instance_status_overwrite(insts, instance_id, status, error_message, clock) ==
    IF instance_id \in DOMAIN insts
    THEN [insts EXCEPT ![instance_id] =
            [@ EXCEPT !.status = status,
                      !.completed_at =
                          IF status \in {"completed", "failed"} THEN Some(clock) ELSE @,
                      !.error_message = error_message]]
    ELSE insts

\* an update that writes every record once the id is known
update_instance_status_shared(insts, instance_id, status, error_message, clock) ==
    IF instance_id \in DOMAIN insts
    THEN [i \in DOMAIN insts |->
            [insts[i] EXCEPT !.status = status,
                             !.completed_at =
                                 IF status \in {"completed", "failed"} THEN Some(clock) ELSE @,
                             !.error_message =
                                 IF Truthy(error_message) THEN error_message ELSE @]]
    ELSE insts

\* BotManager.update_instance_status: the registry after the call
update_instance_status(insts, instance_id, status, error_message, clock) ==
    IF instance_id \in DOMAIN insts
    THEN [insts EXCEPT ![instance_id] =
            [@ EXCEPT !.status = status,
                      !.completed_at =
                          IF status \in {"completed", "failed"} THEN Some(clock) ELSE @,
                      !.error_message =
                          IF Truthy(error_message) THEN error_message ELSE @]]
    ELSE insts

\* a listing that leaves out the records that reached completed or failed
list_instances_live(insts) ==
    [i \in {j \in DOMAIN insts : insts[j].status \notin {"completed", "failed"}} |-> insts[i]]

\* BotManager.list_instances: instance_id -> asdict(instance)
list_instances(insts) == [i \in DOMAIN insts |-> insts[i]]

\* a selection by age alone
to_remove_any_status(insts, max_age_hours, clock) ==
    LET cutoff_time == clock - (max_age_hours * SecondsPerHour)
    IN {i \in DOMAIN insts : insts[i].started_at < cutoff_time}

\* ids cleanup_old_instances selects for removal
to_remove(insts, max_age_hours, clock) ==
    LET cutoff_time == clock - (max_age_hours * SecondsPerHour)
    IN {i \in DOMAIN insts :
            /\ insts[i].started_at < cutoff_time
            /\ insts[i].status \in {"completed", "failed"}}

\* BotManager.cleanup_old_instances: the registry after the call
cleanup_old_instances(insts, max_age_hours, clock) ==
    [i \in DOMAIN insts \ to_remove(insts, max_age_hours, clock) |-> insts[i]]

\* --------------------------------------------------------------- launcher
\* attempt at which the health endpoint first answers 200 (max_retries + 1: never)
HealthOkAt == {1, 2, max_retries, max_retries + 1}

\* what the external process and its host do during one launcher invocation
LaunchEnv ==
    [ spawn : {"ok", "raise"},               \* subprocess.Popen
      ok_at : HealthOkAt,                    \* first healthy attempt
      fail_kind : {"conn_error", "non200"},  \* how the attempts before it end
      join : {"200", "non200", "raise"},     \* POST /api/join-meeting
      wait : {"exit", "raise"},              \* process.communicate
      alive : BOOLEAN,                       \* process.poll() is None in the handler
      terminate : {"ok", "timeout", "raise"} ]  \* process.terminate / wait(timeout=10)

\* the response of GET /health at the k-th attempt
health(env, k) == IF k >= env.ok_at THEN "200" ELSE env.fail_kind

\* the health-poll loop from attempt k on: attempts made, sleeps taken, and
\* whether the loop left through break
RECURSIVE health_poll(_, _, _, _)
RECURSIVE health_poll_any_response(_, _, _, _)
\* a loop that leaves through break on any response, whatever its status code
health_poll_any_response(env, k, calls, sleeps) ==
    IF k > max_retries
    THEN [ok |-> FALSE, calls |-> calls, sleeps |-> sleeps]
    ELSE IF health(env, k) = "conn_error"
         THEN health_poll_any_response(env, k + 1, calls + 1, sleeps + 1)
         ELSE [ok |-> TRUE, calls |-> calls + 1, sleeps |-> sleeps]

health_poll(env, k, calls, sleeps) ==
    IF k > max_retries
    THEN [ok |-> FALSE, calls |-> calls, sleeps |-> sleeps]
    ELSE IF health(env, k) = "200"
         THEN [ok |-> TRUE, calls |-> calls + 1, sleeps |-> sleeps]
         ELSE IF health(env, k) = "conn_error"
              THEN health_poll(env, k + 1, calls + 1, sleeps + 1)
              ELSE health_poll(env, k + 1, calls + 1, sleeps)

\* a launcher that does not look at the status code of the join response
launch_error_unchecked_join(env) ==
    IF env.spawn = "raise" THEN Some("spawn failed")
    ELSE IF ~health_poll(env, 1, 0, 0).ok
         THEN Some("Failed to start meeting bot application")
    ELSE IF env.join = "raise" THEN Some("join request failed")
    ELSE IF env.wait = "raise" THEN Some("wait failed")
    ELSE None

\* str(e) of the exception that takes run_meeting_bot to its handler, None if none
launch_error(env) ==
    IF env.spawn = "raise" THEN Some("spawn failed")
    ELSE IF ~health_poll(env, 1, 0, 0).ok
         THEN Some("Failed to start meeting bot application")
    ELSE IF env.join = "raise" THEN Some("join request failed")
    ELSE IF env.join = "non200" THEN Some("Failed to join meeting: " \o "rejected")
    ELSE IF env.wait = "raise" THEN Some("wait failed")
    ELSE None

\* a handler whose terminate attempt lets its own failure escape
launch_handler_propagating(env, spawned) ==
    LET attempt == spawned /\ env.alive
    IN [ terminate_calls |-> IF attempt THEN 1 ELSE 0,
         terminate_outcome |-> IF attempt THEN env.terminate ELSE "none",
         raised |-> attempt /\ env.terminate # "ok" ]

\* the exception handler of run_meeting_bot: the terminate attempt on a process
\* that was spawned and is still running; whatever the attempt raises is
\* swallowed by the bare except
launch_handler(env, spawned) ==
    LET attempt == spawned /\ env.alive
    IN [ terminate_calls |-> IF attempt THEN 1 ELSE 0,
         terminate_outcome |-> IF attempt THEN env.terminate ELSE "none",
         raised |-> FALSE ]

\* the result when no exception handler runs
NoHandler == [terminate_calls |-> 0, terminate_outcome |-> "none", raised |-> FALSE]

\* run_meeting_bot: the returned dictionary, the calls made on the way and the
\* environment they met
run_meeting_bot(env) ==
    LET spawned == env.spawn = "ok"
        poll == IF spawned THEN health_poll(env, 1, 0, 0)
                ELSE [ok |-> FALSE, calls |-> 0, sleeps |-> 0]
        joined == spawned /\ poll.ok
        waited == joined /\ env.join = "200"
        e == launch_error(env)
        handler == IF IsSet(e) THEN launch_handler(env, spawned) ELSE NoHandler
    IN [ status |-> IF IsSet(e) THEN "error" ELSE "completed",
         message |-> IF IsSet(e) THEN "Meeting bot failed: " \o e[1]
                     ELSE "Meeting bot finished successfully",
         spawned |-> spawned,
         health_calls |-> poll.calls,
         sleeps |-> poll.sleeps,
         join_calls |-> IF joined THEN 1 ELSE 0,
         waited |-> waited,
         terminate_calls |-> handler.terminate_calls,
         \* how the terminate attempt ended
         terminate_outcome |-> handler.terminate_outcome,
         \* an exception left run_meeting_bot instead of the dictionary
         raised |-> handler.raised,
         env |-> env ]

\* ------------------------------------------------------------------- Init
Init ==
    /\ instances = [i \in {} |-> None]
    /\ uuid_count = 0
    /\ now = 0
    /\ task = [i \in {} |-> ""]
    /\ remote = [i \in {} |-> None]
    /\ requests = [i \in {} |-> None]
    /\ returned = << >>
    /\ created = {}
    /\ evicted = {}
    /\ client = OtherRequest
    /\ last = Event("init", 0, 0, "", None, NoListing)

\* the clock advances by an hour
Tick ==
    /\ now < MaxTicks * SecondsPerHour
    /\ now' = now + SecondsPerHour
    /\ last' = Event("tick", 0, 0, "", None, NoListing)
    /\ UNCHANGED <<client, instances, uuid_count, task, remote, requests, returned, created, evicted>>

\* f with key k bound to v
Put(f, k, v) == [x \in DOMAIN f \cup {k} |-> IF x = k THEN v ELSE f[x]]

\* ---------------------------------------------------------------- gateway
\* a merge in which the fixed fields are written last
merge_params_fixed_last(request) ==
    LET fixed == [meeting_url |-> request.meeting_url,
                  bot_name |-> request.bot_name,
                  recording_enabled |-> request.recording_enabled,
                  duration_minutes |-> request.duration_minutes]
        extra == request.additional_params[1]
    IN [k \in DOMAIN fixed \cup DOMAIN extra |->
            IF k \in DOMAIN fixed THEN fixed[k] ELSE extra[k]]

\* the parameter map join_meeting builds: {fixed fields, **additional_params}
merge_params(request) ==
    LET fixed == [meeting_url |-> request.meeting_url,
                  bot_name |-> request.bot_name,
                  recording_enabled |-> request.recording_enabled,
                  duration_minutes |-> request.duration_minutes]
        extra == request.additional_params[1]
    IN [k \in DOMAIN fixed \cup DOMAIN extra |->
            IF k \in DOMAIN extra THEN extra[k] ELSE fixed[k]]

\* the awaited remote call has not resolved yet
Pending == [kind |-> "pending", status |-> "", message |-> None]

\* every dictionary run_meeting_bot can return, with the calls made on the way
LaunchResults == { run_meeting_bot(env) : env \in LaunchEnv }

\* the launches met while the interleavings of the gateway are explored: one
\* per way run_meeting_bot can end
GatewayLaunchEnv ==
    { env \in LaunchEnv :
        /\ env.ok_at \in {1, max_retries + 1}
        /\ env.fail_kind = "conn_error"
        /\ env.alive
        /\ env.terminate = "ok"
        \* what the launcher never gets to consult is left at one value
        /\ (env.spawn = "raise" \/ env.ok_at > max_retries) =>
               env.join = "200" /\ env.wait = "exit"
        /\ env.spawn = "raise" => env.ok_at = 1
        /\ env.join # "200" => env.wait = "exit" }
GatewayLaunchResults == { run_meeting_bot(env) : env \in GatewayLaunchEnv }

\* BotStatusResponse built by get_bot_status
BotStatusResponse(instance) ==
    [instance_id |-> instance.instance_id,
     status |-> instance.status,
     started_at |-> instance.started_at,
     completed_at |-> IF IsSet(instance.completed_at) THEN instance.completed_at ELSE None,
     error_message |-> instance.error_message]

\* POST /bot/join
JoinMeeting(request) ==
    /\ IF request.additional_params = None
       THEN \* unpacking None raises inside the try block: HTTP 500, nothing created
            /\ last' = Event("join", 0, 500, "", None, NoListing)
            /\ client' = OtherRequest
            /\ UNCHANGED <<instances, uuid_count, now, task, remote, requests,
                           returned, created, evicted>>
       ELSE LET meeting_params == merge_params(request)
                instance_id == uuid4(uuid_count)
            IN /\ instances' = create_instance(instances, instance_id, meeting_params, now)
               /\ uuid_count' = uuid_count + 1
               /\ created' = created \cup {instance_id}
               /\ task' = Put(task, instance_id, "scheduled")
               /\ remote' = Put(remote, instance_id, Pending)
               /\ requests' = Put(requests, instance_id, request)
               /\ returned' = Append(returned, instance_id)
               /\ last' = Event("join", instance_id, 200, "starting", None, NoListing)
               /\ client' = Request("join", instance_id)
               /\ UNCHANGED <<now, evicted>>

\* GET /bot/{instance_id}/status
GetBotStatus(instance_id) ==
    LET instance == get_instance(instances, instance_id)
    IN /\ last' = IF instance = None
                  THEN Event("status", instance_id, 404, "", None, NoListing)
                  ELSE Event("status", instance_id, 200, instance[1].status,
                             Some(BotStatusResponse(instance[1])), NoListing)
       /\ client' = OtherRequest
    /\ UNCHANGED <<instances, uuid_count, now, task, remote, requests,
                      returned, created, evicted>>

\* GET /bot/instances
ListBotInstances ==
    /\ last' = Event("list", 0, 200, "", None, list_instances(instances))
    /\ client' = OtherRequest
    /\ UNCHANGED <<instances, uuid_count, now, task, remote, requests,
                   returned, created, evicted>>

\* a terminate that skips the lookup and acknowledges every id
TerminateBot_unchecked(instance_id) ==
    /\ instances' = update_instance_status(instances, instance_id, "terminated", None, now)
    /\ last' = Event("terminate", instance_id, 200, "", None, NoListing)
    /\ client' = Request("terminate", instance_id)
    /\ UNCHANGED <<uuid_count, now, task, remote, requests, returned, created, evicted>>

\* a terminate that also cancels the instance's background task
TerminateBot_cancelling(instance_id) ==
    LET instance == get_instance(instances, instance_id)
    IN IF instance = None
       THEN /\ last' = Event("terminate", instance_id, 404, "", None, NoListing)
            /\ client' = OtherRequest
            /\ UNCHANGED <<instances, uuid_count, now, task, remote, requests,
                           returned, created, evicted>>
       ELSE /\ instances' = update_instance_status(instances, instance_id,
                                                   "terminated", None, now)
            /\ task' = [task EXCEPT ![instance_id] = "done"]
            /\ last' = Event("terminate", instance_id, 200, "", None, NoListing)
            /\ client' = Request("terminate", instance_id)
            /\ UNCHANGED <<uuid_count, now, remote, requests,
                           returned, created, evicted>>

\* DELETE /bot/{instance_id}
TerminateBot(instance_id) ==
    LET instance == get_instance(instances, instance_id)
    IN IF instance = None
       THEN /\ last' = Event("terminate", instance_id, 404, "", None, NoListing)
            /\ client' = OtherRequest
            /\ UNCHANGED <<instances, uuid_count, now, task, remote, requests,
                           returned, created, evicted>>
       ELSE /\ instances' = update_instance_status(instances, instance_id,
                                                   "terminated", None, now)
            /\ last' = Event("terminate", instance_id, 200, "", None, NoListing)
            /\ client' = Request("terminate", instance_id)
            /\ UNCHANGED <<uuid_count, now, task, remote, requests,
                           returned, created, evicted>>

\* ------------------------------------------------------- background task
\* a task that calls the remote launcher without marking the instance running
StartBotAsync_unmarked(instance_id) ==
    /\ instance_id \in DOMAIN task
    /\ task[instance_id] = "scheduled"
    /\ task' = [task EXCEPT ![instance_id] = "awaiting"]
    /\ last' = Event("start_bot_async", instance_id, 0, "running", None, NoListing)
    /\ UNCHANGED <<client, instances, uuid_count, now, remote, requests, returned,
                   created, evicted>>

\* start_bot_async up to its await: mark running, call the remote launcher
StartBotAsync(instance_id) ==
    /\ instance_id \in DOMAIN task
    /\ task[instance_id] = "scheduled"
    /\ instances' = update_instance_status(instances, instance_id, "running", None, now)
    /\ task' = [task EXCEPT ![instance_id] = "awaiting"]
    /\ last' = Event("start_bot_async", instance_id, 0, "running", None, NoListing)
    /\ UNCHANGED <<client, uuid_count, now, remote, requests, returned, created, evicted>>

\* the remote launcher runs on its worker and returns its dictionary
RunMeetingBot(instance_id, results) ==
    /\ instance_id \in DOMAIN task
    /\ task[instance_id] = "awaiting"
    /\ remote[instance_id].kind = "pending"
    /\ \E result \in results :
             /\ remote' = [remote EXCEPT ![instance_id] =
                              IF result.raised
                              THEN [kind |-> "raised", status |-> "",
                                    message |-> Some(result.terminate_outcome)]
                              ELSE [kind |-> "result", status |-> result.status,
                                    message |-> Some(result.message)]]
             /\ last' = Event("run_meeting_bot", instance_id, 0, result.status,
                              Some(result), NoListing)
    /\ UNCHANGED <<client, instances, uuid_count, now, task, requests, returned, created, evicted>>

\* awaiting the remote call raises instead (platform error, call timeout)
RemoteRaises(instance_id) ==
    /\ instance_id \in DOMAIN task
    /\ task[instance_id] = "awaiting"
    /\ remote[instance_id].kind = "pending"
    /\ remote' = [remote EXCEPT ![instance_id] =
                     [kind |-> "raised", status |-> "", message |-> Some("call timed out")]]
    /\ last' = Event("remote_raises", instance_id, 0, "", None, NoListing)
    /\ UNCHANGED <<client, instances, uuid_count, now, task, requests, returned, created, evicted>>

\* a mapping that takes every returned dictionary for a success
result_update_unchecked(outcome) ==
    IF outcome.kind = "raised"
    THEN [status |-> "failed", error_message |-> Some("Error starting bot: " \o outcome.message[1])]
    ELSE [status |-> "completed", error_message |-> None]

\* a mapping with no answer to a remote call that raises: the instance stays running
result_update_unhandled(outcome) ==
    IF outcome.kind = "raised"
    THEN [status |-> "running", error_message |-> None]
    ELSE IF outcome.status = "completed"
         THEN [status |-> "completed", error_message |-> None]
         ELSE [status |-> "failed",
               error_message |-> IF IsSet(outcome.message) THEN outcome.message
                                 ELSE Some("Unknown error")]

\* the status and message start_bot_async writes for an outcome of the remote call
result_update(outcome) ==
    IF outcome.kind = "raised"
    THEN [status |-> "failed", error_message |-> Some("Error starting bot: " \o outcome.message[1])]
    ELSE IF outcome.status = "completed"
         THEN [status |-> "completed", error_message |-> None]
         ELSE [status |-> "failed",
               error_message |-> IF IsSet(outcome.message) THEN outcome.message
                                 ELSE Some("Unknown error")]

\* start_bot_async after its await: map the outcome onto the registry
FinishBotAsync(instance_id) ==
    /\ instance_id \in DOMAIN task
    /\ task[instance_id] = "awaiting"
    /\ remote[instance_id].kind # "pending"
    /\ LET upd == result_update(remote[instance_id])
       IN /\ instances' = update_instance_status(instances, instance_id, upd.status,
                                                 upd.error_message, now)
          /\ last' = Event("finish_bot_async", instance_id, 0, upd.status,
                           upd.error_message, NoListing)
    /\ task' = [task EXCEPT ![instance_id] = "done"]
    /\ remote' = [remote EXCEPT ![instance_id] = Pending]
    /\ UNCHANGED <<client, uuid_count, now, requests, returned, created, evicted>>

\* ------------------------------------------------- registry maintenance
\* bot_manager.cleanup_old_instances(max_age_hours); the event's id field
\* carries max_age_hours
Cleanup(max_age_hours) ==
    /\ instances' = cleanup_old_instances(instances, max_age_hours, now)
    /\ evicted' = evicted \cup to_remove(instances, max_age_hours, now)
    /\ last' = Event("cleanup", max_age_hours, 0, "", None, NoListing)
    /\ UNCHANGED <<client, uuid_count, now, task, remote, requests, returned, created>>

\* ------------------------------------------- the registry driven directly
\* parameter maps handed to create_instance
RegistryParams == { [meeting_url |-> "https://example.com/m/1"] }

\* bot_manager.create_instance(meeting_params)
CreateInstance(meeting_params) ==
    LET instance_id == uuid4(uuid_count)
    IN /\ instances' = create_instance(instances, instance_id, meeting_params, now)
       /\ uuid_count' = uuid_count + 1
       /\ created' = created \cup {instance_id}
       /\ last' = Event("create_instance", instance_id, 0, "starting", None, NoListing)
       /\ UNCHANGED <<client, now, task, remote, requests, returned, evicted>>

\* bot_manager.update_instance_status(instance_id, status, error_message)
UpdateInstanceStatus(instance_id, status, error_message) ==
    /\ instances' = update_instance_status(instances, instance_id, status, error_message, now)
    /\ last' = Event("update_instance_status", instance_id, 0, status, error_message, NoListing)
    /\ UNCHANGED <<client, uuid_count, now, task, remote, requests, returned, created, evicted>>

\* ---------------------------------------------------------- specifications
\* the gateway: requests and background tasks in every interleaving
Next ==
    \/ /\ uuid_count < MaxInstances
       /\ \E request \in GatewayRequests : JoinMeeting(request)
    \/ \E instance_id \in Ids : GetBotStatus(instance_id)
    \/ ListBotInstances
    \/ \E instance_id \in Ids : TerminateBot(instance_id)
    \/ \E instance_id \in Ids : StartBotAsync(instance_id)
    \/ \E instance_id \in Ids : RunMeetingBot(instance_id, GatewayLaunchResults)
    \/ \E instance_id \in Ids : RemoteRaises(instance_id)
    \/ \E instance_id \in Ids : FinishBotAsync(instance_id)

Spec == Init /\ [][Next]_vars

\* the gateway while the clock runs and the registry is swept
NextClock ==
    \/ /\ uuid_count < MaxTimedInstances
       /\ \E request \in GatewayRequests : JoinMeeting(request)
    \/ \E instance_id \in Ids : GetBotStatus(instance_id)
    \/ \E instance_id \in Ids : TerminateBot(instance_id)
    \/ \E instance_id \in Ids : StartBotAsync(instance_id)
    \/ \E instance_id \in Ids : RunMeetingBot(instance_id, GatewayLaunchResults)
    \/ \E instance_id \in Ids : RemoteRaises(instance_id)
    \/ \E instance_id \in Ids : FinishBotAsync(instance_id)
    \/ \E max_age_hours \in MaxAges : Cleanup(max_age_hours)
    \/ Tick

SpecClock == Init /\ [][NextClock]_vars

\* the gateway while each launch meets any environment: every way the spawn,
\* the health polls, the join request, the wait and the terminate attempt can go
NextLaunch ==
    \/ /\ uuid_count < MaxLaunches
       /\ \E request \in GatewayRequests : JoinMeeting(request)
    \/ \E instance_id \in Ids : GetBotStatus(instance_id)
    \/ \E instance_id \in Ids : StartBotAsync(instance_id)
    \/ \E instance_id \in Ids : RunMeetingBot(instance_id, LaunchResults)
    \/ \E instance_id \in Ids : RemoteRaises(instance_id)
    \/ \E instance_id \in Ids : FinishBotAsync(instance_id)

SpecLaunch == Init /\ [][NextLaunch]_vars

\* joins, terminates and the background tasks, the tasks running fairly: the
\* event loop runs a task that is ready, and the awaited remote call returns
\* or raises
NextLive ==
    \/ /\ uuid_count < MaxLiveInstances
       /\ \E request \in GatewayRequests : JoinMeeting(request)
    \/ \E instance_id \in Ids : TerminateBot(instance_id)
    \/ \E instance_id \in Ids : StartBotAsync(instance_id)
    \/ \E instance_id \in Ids : RunMeetingBot(instance_id, GatewayLaunchResults)
    \/ \E instance_id \in Ids : RemoteRaises(instance_id)
    \/ \E instance_id \in Ids : FinishBotAsync(instance_id)

SpecLive ==
    /\ Init
    /\ [][NextLive]_vars
    /\ \A instance_id \in Ids :
          /\ WF_vars(StartBotAsync(instance_id))
          /\ WF_vars(RunMeetingBot(instance_id, GatewayLaunchResults)
                        \/ RemoteRaises(instance_id))
          /\ WF_vars(FinishBotAsync(instance_id))

\* status updates issued while the registry is created, swept and read
SweepStatuses == {"running", "completed"}

\* the registry created, completed, swept and read through the gateway's endpoints
NextRegistry ==
    \/ /\ uuid_count < MaxRecords
       /\ \E meeting_params \in RegistryParams : CreateInstance(meeting_params)
    \/ \E instance_id \in Ids, status \in SweepStatuses :
          UpdateInstanceStatus(instance_id, status, None)
    \/ \E max_age_hours \in MaxAges : Cleanup(max_age_hours)
    \/ \E instance_id \in Ids : GetBotStatus(instance_id)
    \/ ListBotInstances
    \/ Tick

SpecRegistry == Init /\ [][NextRegistry]_vars

\* update_instance_status under arbitrary callers
NextUpdate ==
    \/ /\ uuid_count < MaxRecords
       /\ \E meeting_params \in RegistryParams : CreateInstance(meeting_params)
    \/ \E instance_id \in Ids, status \in Statuses, error_message \in Messages :
          UpdateInstanceStatus(instance_id, status, error_message)

SpecUpdate == Init /\ [][NextUpdate]_vars

\* join requests of every shape
NextJoin ==
    /\ uuid_count < MaxInstances
    /\ \E request \in JoinMeetingRequest : JoinMeeting(request)

SpecJoin == Init /\ [][NextJoin]_vars

\* ------------------------------------------------------------ properties
TypeOK ==
    /\ DOMAIN instances \subseteq Ids
    /\ \A i \in DOMAIN instances : instances[i].status \in Statuses

\* no value occurs twice in the sequence
Distinct(seq) == \A i, j \in 1 .. Len(seq) : i # j => seq[i] # seq[j]

\* what GET /bot/{id}/status would answer in this state: the status, "" for 404
StatusRead(instance_id) ==
    IF get_instance(instances, instance_id) = None THEN ""
    ELSE BotStatusResponse(get_instance(instances, instance_id)[1]).status

\* C1 (as stated): every id returned by a join differs from all ids returned
\* before, and while the join is the last client request a status lookup of the
\* returned id answers `starting`.
C1_LookupAfterJoinIsStarting ==
    /\ Distinct(returned)
    /\ client.op = "join" => StatusRead(client.id) = "starting"

\* C1 (amended): every id returned by a join differs from all ids returned
\* before, and while the join is the last client request a status lookup of the
\* returned id finds the record; it answers `starting` exactly while the
\* instance's background task has not run yet, and after that the status the
\* task wrote last (`running`, `completed` or `failed`).
C1_LookupAfterJoinFindsRecord ==
    /\ Distinct(returned)
    /\ client.op = "join" =>
          /\ client.id \in DOMAIN instances
          /\ client.id = returned[Len(returned)]
          /\ (task[client.id] = "scheduled") <=> (StatusRead(client.id) = "starting")
          /\ task[client.id] = "awaiting" => StatusRead(client.id) = "running"
          /\ task[client.id] = "done" => StatusRead(client.id) \in {"completed", "failed"}

\* C1 witness: a second join has returned, its task has already marked the
\* instance running, and the lookup that follows answers `running`.
C1_Witness ==
    /\ Len(returned) = 2
    /\ last.op = "status" /\ last.id = returned[2] /\ last.code = 200
    /\ last.status = "running"
    /\ task[returned[2]] = "awaiting"

\* C2 (as stated): in every state every record has completed_at set exactly
\* when its status is `completed` or `failed`.
C2_CompletedAtIffTerminal ==
    \A i \in DOMAIN instances :
        IsSet(instances[i].completed_at) <=> instances[i].status \in {"completed", "failed"}

\* C3: the step that finishes an instance's background task writes `completed`
\* exactly when the launcher returned a dictionary whose status is `completed`;
\* otherwise it writes `failed` with a non-empty error message, the launcher's
\* message or one derived from the exception.
C3_FinishMapsOutcome ==
    [][\A i \in DOMAIN task :
          (task[i] = "awaiting" /\ task'[i] = "done") =>
             LET outcome == remote[i]
                 after == instances'[i]
                 success == outcome.kind = "result" /\ outcome.status = "completed"
             IN /\ i \in DOMAIN instances'
                /\ after.status = IF success THEN "completed" ELSE "failed"
                /\ ~success =>
                      /\ Truthy(after.error_message)
                      /\ outcome.kind = "result" => after.error_message = outcome.message
                      /\ outcome.kind = "raised" =>
                            after.error_message
                               = Some("Error starting bot: " \o outcome.message[1])
                /\ success => after.error_message = instances[i].error_message
      ]_vars

\* C3 witness: one task finished after a completed result, another after the
\* remote call raised.
C3_Witness ==
    \E i, j \in DOMAIN instances :
        /\ task[i] = "done" /\ instances[i].status = "completed"
        /\ instances[i].error_message = None
        /\ last.op = "finish_bot_async" /\ last.id = j
        /\ instances[j].status = "failed"
        /\ instances[j].error_message = Some("Error starting bot: call timed out")

\* C4 (as stated): while an acknowledged terminate is the last client request,
\* a status read of that id answers `terminated`.
C4_ReadAfterTerminateIsTerminated ==
    client.op = "terminate" => StatusRead(client.id) = "terminated"

\* C4 (amended): terminate on an id without a record answers not-found and
\* leaves the registry unchanged; on an existing record it sets the status to
\* `terminated`, and a status read answers `terminated` from then on until the
\* instance's own background task writes its status again.
C4_TerminateUntilTaskWrites ==
    [][/\ last'.op = "terminate" =>
            IF last'.id \in DOMAIN instances
            THEN /\ last'.code = 200
                 /\ instances'[last'.id].status = "terminated"
                 /\ BotStatusResponse(get_instance(instances', last'.id)[1]).status
                       = "terminated"
            ELSE /\ last'.code = 404
                 /\ instances' = instances
       /\ \A i \in DOMAIN instances :
             (instances[i].status = "terminated" /\ i \in DOMAIN task /\ task'[i] = task[i])
                => (i \in DOMAIN instances' /\ instances'[i].status = "terminated")
      ]_vars

\* C4 witness: an instance whose launch is in flight was terminated and the
\* status read that follows answers `terminated`.
C4_Witness ==
    /\ last.op = "status" /\ last.code = 200
    /\ last.status = "terminated"
    /\ task[last.id] = "awaiting"
    /\ remote[last.id].kind = "result"

\* C5: a status lookup of an id without a record answers not-found and creates
\* nothing, a lookup of an id with a record finds it, and the list operation
\* returns one entry, keyed by its own id, for each id created and not evicted
\* by cleanup, and no other entry.
C5_LookupAndList ==
    [][/\ last'.op = "status" =>
            IF last'.id \in DOMAIN instances
            THEN last'.code = 200 /\ last'.record[1].instance_id = last'.id
            ELSE /\ last'.code = 404
                 /\ instances' = instances
                 /\ created' = created
       /\ last'.op = "list" =>
            /\ DOMAIN last'.listing = created \ evicted
            /\ \A i \in DOMAIN last'.listing : last'.listing[i].instance_id = i
            /\ \A i \in DOMAIN last'.listing : last'.listing[i] = instances[i]
      ]_vars

\* C5 witness: two ids were created, cleanup evicted one, and the list that
\* follows returns the other alone.
C5_Witness ==
    /\ last.op = "list"
    /\ Cardinality(created) = 2
    /\ Cardinality(evicted) = 1
    /\ DOMAIN last.listing = created \ evicted

\* C6: update_status on an id without a record changes nothing, whatever the
\* status and the error_message: the same ids have records and every record is
\* as before.
C6_UpdateUnknownIsNoOp ==
    [][(last'.op = "update_instance_status" /\ last'.id \notin DOMAIN instances) =>
          /\ DOMAIN instances' = DOMAIN instances
          /\ instances' = instances
      ]_vars

\* C6 witness: with a record in the registry, update_status(`failed`, "boom")
\* was called on an id that has no record.
C6_Witness ==
    /\ last.op = "update_instance_status"
    /\ last.id \notin DOMAIN instances
    /\ last.status = "failed" /\ last.record = Some("boom")
    /\ DOMAIN instances # {}

C8_UpdateSetsCompletedAt ==
    [][(last'.op = "update_instance_status" /\ last'.id \in DOMAIN instances) =>
          LET before == instances[last'.id]
              after == instances'[last'.id]
          IN /\ last'.status \in {"completed", "failed"} => IsSet(after.completed_at)
             /\ (last'.status \in {"starting", "running"} /\ ~IsSet(before.completed_at))
                   => ~IsSet(after.completed_at)
      ]_vars

\* C8 witness: update_status(`failed`) has just been applied to a record.
C8_Witness ==
    /\ last.op = "update_instance_status"
    /\ last.id \in DOMAIN instances
    /\ last.status = "failed"
    /\ instances[last.id].status = "failed"
    /\ IsSet(instances[last.id].completed_at)

\* the additional_params of the join request that created instance i
Extra(i) == requests[i].additional_params[1]

\* C9 (as stated): for a fixed key that additional_params also contains, the
\* merged map holds the top-level request field's value.
C9_FixedKeysWin ==
    \A i \in DOMAIN requests :
        \A k \in FixedKeys \cap DOMAIN Extra(i) :
            instances[i].meeting_params[k] = requests[i][k]

\* C9 (amended): for a fixed key that additional_params also contains, the
\* merged map holds the additional_params value; the other fixed keys hold the
\* top-level request field's value.
C9_AdditionalParamsWin ==
    \A i \in DOMAIN requests :
        /\ DOMAIN instances[i].meeting_params = FixedKeys \cup DOMAIN Extra(i)
        /\ \A k \in DOMAIN Extra(i) : instances[i].meeting_params[k] = Extra(i)[k]
        /\ \A k \in FixedKeys \ DOMAIN Extra(i) :
              instances[i].meeting_params[k] = requests[i][k]

\* C9 witness: a join with bot_name "Y" and additional_params {bot_name: "X"}
\* was accepted.
C9_Witness ==
    \E i \in DOMAIN requests :
        /\ requests[i].bot_name = "Y"
        /\ "bot_name" \in DOMAIN Extra(i)
        /\ Extra(i).bot_name = "X"
        /\ instances[i].meeting_params.bot_name = "X"

LaunchOf(event) == event.record[1]

\* the message of the result returned when the health budget is exhausted
StartFailure == "Meeting bot failed: " \o "Failed to start meeting bot application"

\* C11: when the process was spawned and none of the max_retries health polls
\* obtains a success (connection errors and non-success responses both use up
\* an attempt), run_meeting_bot makes exactly max_retries polls, never calls
\* the join endpoint and returns an error result saying the application failed
\* to start; the background task then sets the instance to `failed` with that
\* message.
C11_HealthBudgetExhausted ==
    [][ /\ (/\ last'.op = "run_meeting_bot"
            /\ LaunchOf(last').env.spawn = "ok"
            /\ LaunchOf(last').env.ok_at > max_retries) =>
              /\ LaunchOf(last').health_calls = max_retries
              /\ LaunchOf(last').join_calls = 0
              /\ ~LaunchOf(last').waited
              /\ LaunchOf(last').status = "error"
              /\ LaunchOf(last').message = StartFailure
              /\ remote'[last'.id] = [kind |-> "result", status |-> "error",
                                      message |-> Some(StartFailure)]
        /\ \A i \in DOMAIN instances :
              (/\ task[i] = "awaiting" /\ task'[i] = "done"
               /\ remote[i].kind = "result"
               /\ remote[i].message = Some(StartFailure)) =>
                 /\ instances'[i].status = "failed"
                 /\ instances'[i].error_message = Some(StartFailure)
      ]_vars

\* C11 witness: a background task has just set its instance to `failed` with
\* the failed-to-start message
C11_Witness ==
    /\ last.op = "finish_bot_async"
    /\ instances[last.id].status = "failed"
    /\ instances[last.id].error_message = Some(StartFailure)

\* ------------------------------------------------------ creation-time fields
\* C12: instance_id, meeting_params and started_at are written when the record
\* is created (its key, the merged request parameters, the clock at creation)
\* and no later step changes them while the record exists: neither the status
\* updates of the background task, nor terminate, nor a sweep that keeps it.
C12_CreationFieldsKept ==
    [][ /\ \A i \in DOMAIN instances \cap DOMAIN instances' :
              /\ instances'[i].instance_id = instances[i].instance_id
              /\ instances'[i].meeting_params = instances[i].meeting_params
              /\ instances'[i].started_at = instances[i].started_at
        /\ \A i \in DOMAIN instances' \ DOMAIN instances :
              /\ instances'[i].instance_id = i
              /\ instances'[i].meeting_params = merge_params(requests'[i])
              /\ instances'[i].started_at = now
      ]_vars

\* C12 witness: a record created at an earlier clock value has been through the
\* task's updates and a terminate
C12_Witness ==
    /\ last.op = "terminate" /\ last.code = 200
    /\ task[last.id] = "done"
    /\ instances[last.id].status = "terminated"
    /\ IsSet(instances[last.id].completed_at)
    /\ instances[last.id].started_at < instances[last.id].completed_at[1]

\* --------------------------------------------------- order of the task's updates
\* C13: the record is created `starting` together with its task; the task's
\* first step marks an existing record `running`; the remote launcher resolves
\* only for a task that has made that step; the task's second and last step
\* writes `completed` or `failed`; the task moves only scheduled -> awaiting ->
\* done, and a record whose task makes no step is changed by terminate alone,
\* so nothing is written before `running` or after the terminal update.
C13_TaskUpdateOrder ==
    [][ \A i \in DOMAIN task' :
          IF i \notin DOMAIN task
          THEN /\ task'[i] = "scheduled"
               /\ i \in DOMAIN instances' \ DOMAIN instances
               /\ instances'[i].status = "starting"
          ELSE /\ task'[i] # task[i] =>
                    \/ /\ task[i] = "scheduled" /\ task'[i] = "awaiting"
                       /\ i \in DOMAIN instances
                       /\ remote[i].kind = "pending"
                       /\ instances'[i].status = "running"
                    \/ /\ task[i] = "awaiting" /\ task'[i] = "done"
                       /\ remote[i].kind # "pending"
                       /\ instances'[i].status \in {"completed", "failed"}
               /\ (remote[i].kind = "pending" /\ remote'[i].kind # "pending") =>
                    /\ task[i] = "awaiting" /\ task'[i] = "awaiting"
                    /\ i \in DOMAIN instances
                    /\ last'.op \in {"run_meeting_bot", "remote_raises"}
               /\ (task'[i] = task[i] /\ instances'[i] # instances[i]) =>
                    /\ last'.op = "terminate"
                    /\ last'.id = i
      ]_vars

\* C13 witness: a task has made both steps and its terminal update is in the record
C13_Witness ==
    /\ last.op = "finish_bot_async"
    /\ task[last.id] = "done"
    /\ instances[last.id].status \in {"completed", "failed"}
    /\ IsSet(instances[last.id].completed_at)

\* ------------------------------------------------ terminate against the launch
\* C14: terminate is accepted while the launch is in flight and the last writer
\* wins: when the task finishes on a record that a terminate set to
\* `terminated`, its update replaces that status by `completed` or `failed`;
\* and a terminate that arrives before the task's first step is replaced by
\* `running`.
C14_LastWriterWins ==
    [][ \A i \in DOMAIN instances :
          /\ (/\ task[i] = "awaiting" /\ task'[i] = "done"
              /\ instances[i].status = "terminated") =>
                /\ instances'[i].status = result_update(remote[i]).status
                /\ instances'[i].status \in {"completed", "failed"}
          /\ (/\ task[i] = "scheduled" /\ task'[i] = "awaiting"
              /\ instances[i].status = "terminated") =>
                instances'[i].status = "running"
          /\ (last'.op = "terminate" /\ last'.id = i /\ task[i] # "done") =>
                /\ last'.code = 200
                /\ instances'[i].status = "terminated"
      ]_vars

\* C14 witness: the last client request was an accepted terminate of an instance
\* whose launch was in flight, and the finishing task has since overwritten
\* `terminated`
C14_Witness ==
    /\ client.op = "terminate"
    /\ last.op = "finish_bot_async" /\ last.id = client.id
    /\ instances[client.id].status \in {"completed", "failed"}

\* C15: an accepted terminate replaces the status of its record by `terminated`
\* and changes nothing else: completed_at, error_message, meeting_params and
\* started_at of the record, every other record, the instance's background
\* task and the outcome of its remote launch stay as they were; a terminate of
\* an unknown id changes nothing at all.
C15_TerminateWritesStatusOnly ==
    [][ last'.op = "terminate" =>
          /\ task' = task
          /\ remote' = remote
          /\ IF last'.code = 200
             THEN /\ last'.id \in DOMAIN instances
                  /\ instances' = [instances EXCEPT ![last'.id].status = "terminated"]
             ELSE /\ last'.id \notin DOMAIN instances
                  /\ instances' = instances
      ]_vars

\* C15 witness: after an accepted terminate of an instance whose launch was in
\* flight, the launcher has returned its own result for that instance
C15_Witness ==
    /\ client.op = "terminate"
    /\ last.op = "run_meeting_bot" /\ last.id = client.id
    /\ instances[client.id].status = "terminated"
    /\ task[client.id] = "awaiting"
    /\ remote[client.id].kind = "result"

\* the message of the result returned when the join endpoint answers non-200
JoinRejected == "Meeting bot failed: " \o "Failed to join meeting: " \o "rejected"

\* C16: in one invocation of run_meeting_bot the join endpoint is called at
\* most once, and only when the process was spawned and a health poll within
\* the budget answered 200, that poll being the last one made; when the join
\* response is not 200 the launcher does not wait for the process but returns
\* an error result whose message carries the response body.
C16_JoinAfterHealthOnce ==
    [][ last'.op = "run_meeting_bot" =>
          /\ LaunchOf(last').join_calls \in {0, 1}
          /\ LaunchOf(last').join_calls = 1 =>
                /\ LaunchOf(last').env.spawn = "ok"
                /\ LaunchOf(last').env.ok_at <= max_retries
                /\ LaunchOf(last').health_calls = LaunchOf(last').env.ok_at
          /\ (LaunchOf(last').join_calls = 1 /\ LaunchOf(last').env.join = "non200") =>
                /\ ~LaunchOf(last').waited
                /\ LaunchOf(last').status = "error"
                /\ LaunchOf(last').message = JoinRejected
                /\ remote'[last'.id] = [kind |-> "result", status |-> "error",
                                        message |-> Some(JoinRejected)]
      ]_vars

\* C16 witness: a launcher got 200 from its second health poll, called the join
\* endpoint once and was answered non-200
C16_Witness ==
    /\ last.op = "run_meeting_bot"
    /\ LaunchOf(last).env.ok_at = 2
    /\ LaunchOf(last).env.join = "non200"
    /\ LaunchOf(last).join_calls = 1
    /\ LaunchOf(last).message = JoinRejected

\* the launch fails after the process was spawned
FailsAfterSpawn(env) ==
    /\ env.spawn = "ok"
    /\ \/ env.ok_at > max_retries
       \/ env.join # "200"
       \/ env.wait = "raise"

\* C17: when run_meeting_bot fails after the process was spawned (health budget
\* exhausted, join rejected or raising, error while waiting), it makes one
\* terminate attempt if the process is still running and none otherwise, and
\* it returns an error result to the awaiting task instead of raising, also
\* when the terminate attempt raises or runs out of its grace period.
C17_FailureTerminatesAndReturns ==
    [][ (last'.op = "run_meeting_bot" /\ FailsAfterSpawn(LaunchOf(last').env)) =>
          /\ LaunchOf(last').terminate_calls =
                IF LaunchOf(last').env.alive THEN 1 ELSE 0
          /\ LaunchOf(last').status = "error"
          /\ ~LaunchOf(last').raised
          /\ remote'[last'.id].kind = "result"
          /\ remote'[last'.id].status = "error"
          /\ remote'[last'.id].message = Some(LaunchOf(last').message)
      ]_vars

\* C17 witness: a launcher failed with the process still running, its terminate
\* attempt ran out of the grace period, and the error result was returned
C17_Witness ==
    /\ last.op = "run_meeting_bot"
    /\ FailsAfterSpawn(LaunchOf(last).env)
    /\ LaunchOf(last).env.alive
    /\ LaunchOf(last).terminate_calls = 1
    /\ LaunchOf(last).terminate_outcome = "timeout"
    /\ remote[last.id].kind = "result"
    /\ remote[last.id].status = "error"

\* ------------------------------------------------------------ error_message
\* C18: update_instance_status on an existing record replaces error_message by
\* the supplied message exactly when that message is a non-empty string; with
\* no message or the empty string the record keeps the error_message it had,
\* whatever status is written.
C18_MessageKeptUnlessSupplied ==
    [][ (last'.op = "update_instance_status" /\ last'.id \in DOMAIN instances) =>
          /\ instances'[last'.id].status = last'.status
          /\ instances'[last'.id].error_message =
                IF last'.record = None \/ last'.record = Some("")
                THEN instances[last'.id].error_message
                ELSE last'.record
      ]_vars

\* C18 witness: a record that holds an error message has been set to
\* `terminated` by an update without a message, and the message is still there
C18_Witness ==
    /\ last.op = "update_instance_status"
    /\ last.id \in DOMAIN instances
    /\ last.status = "terminated"
    /\ last.record = None
    /\ instances[last.id].status = "terminated"
    /\ instances[last.id].error_message = Some("boom")

\* ------------------------------------------------------------------ liveness
\* the record of the instance exists and its status is one a run ends in
Settled(i) ==
    /\ i \in DOMAIN instances
    /\ instances[i].status \in {"completed", "failed", "terminated"}

\* C19: with the background tasks scheduled fairly and every awaited remote
\* call returning or raising, each instance a join created is, from some point
\* on, for ever in `completed`, `failed` or `terminated`, however terminate
\* requests are interleaved: it leaves `starting` and `running` for good.
C19_EventuallySettled ==
    \A i \in Ids : [](i \in DOMAIN instances => <>[]Settled(i))

\* C19 witness: an instance that was terminated before its task finished has
\* been settled by the task
C19_Witness ==
    /\ client.op = "terminate"
    /\ task[client.id] = "done"
    /\ Settled(client.id)
    /\ \A i \in DOMAIN instances : Settled(i)
    /\ Cardinality(DOMAIN instances) = MaxLiveInstances

\* ----------------------------------------------------------------- isolation
\* C20: a step made for one instance id (a terminate, a step of its background
\* task, the return of its launch) keeps the set of records and every field of
\* every other record; an accepted join adds exactly one record under an id
\* that had none and changes no other; so the records are as many as the joins
\* accepted, each stored under its own id.
C20_OtherRecordsUntouched ==
    [][ /\ IF last'.op = "join" /\ last'.code = 200
           THEN /\ last'.id \notin DOMAIN instances
                /\ DOMAIN instances' = DOMAIN instances \cup {last'.id}
           ELSE DOMAIN instances' = DOMAIN instances
        /\ \A j \in DOMAIN instances \ {last'.id} : instances'[j] = instances[j]
        /\ Cardinality(DOMAIN instances') = Len(returned')
        /\ Distinct(returned')
        /\ \A i \in DOMAIN instances' : instances'[i].instance_id = i
      ]_vars

\* C20 witness: two instances are live, the task of one has just finished and
\* the record of the other is still as its join created it
C20_Witness ==
    /\ last.op = "finish_bot_async"
    /\ Cardinality(DOMAIN instances) = 2
    /\ \E j \in DOMAIN instances \ {last.id} :
          /\ instances[j].status = "starting"
          /\ task[j] = "scheduled"
    /\ instances[last.id].status \in {"completed", "failed"}

====
